---- MODULE Spec2Model ----
(***************************************************************************)
(* The two HTTP-triggered functions of the repository, blobStorageApi and  *)
(* tableStorageApi, as a state machine.  Every invocation runs in a slot   *)
(* of Procs; the slots interleave at the awaits of the handlers, which are *)
(* exactly the calls to the storage service.  The storage service (one     *)
(* container "documents", one table "users") is shared by all slots.       *)
(***************************************************************************)
EXTENDS Integers, Sequences, FiniteSets, TLC

\* ------------------------------------------------------------------ bounds
\* Number of requests the host delivers in one behaviour.
MaxRequests == 2

\* Invocations the host runs concurrently.
Procs == {1, 2}

\* ------------------------------------------------- JavaScript values
\* undefined (a missing query parameter, header or body field) and a present value.
None == <<>>
Some(v) == <<v>>

\* !x for a string-or-undefined x: undefined and "" are falsy.
FalsyStr(o) == o = None \/ o = Some("")

\* !x for a number-or-undefined x: undefined and 0 are falsy.
FalsyNum(o) == o = None \/ o = Some(0)

\* x || d on strings.
OrStr(o, d) == IF FalsyStr(o) THEN d ELSE o[1]

\* x || d on numbers.
OrNum(o, d) == IF FalsyNum(o) THEN d ELSE o[1]

\* A destructuring default  { x = d } = body : d replaces undefined only.
DefaultTo(o, d) == IF o = None THEN d ELSE o[1]

\* String.prototype.toUpperCase on one character (the letters HTTP methods use).
UpperChar(c) ==
  CASE c = "a" -> "A" [] c = "c" -> "C" [] c = "d" -> "D" [] c = "e" -> "E"
    [] c = "g" -> "G" [] c = "h" -> "H" [] c = "l" -> "L" [] c = "o" -> "O"
    [] c = "p" -> "P" [] c = "s" -> "S" [] c = "t" -> "T" [] c = "u" -> "U"
    [] OTHER -> c

\* request.method.toUpperCase(); a method is the sequence of its characters.
ToUpperCase(m) == [i \in DOMAIN m |-> UpperChar(m[i])]

GET == <<"G", "E", "T">>
POST == <<"P", "O", "S", "T">>
PUT == <<"P", "U", "T">>
DELETE == <<"D", "E", "L", "E", "T", "E">>

\* Number.prototype.toString for the lengths that occur.
NumToString(n) == <<"0", "1", "2", "3", "4", "5", "6", "7", "8", "9">>[n + 1]

\* --------------------------------------------------------------- requests
\* One HTTP request: the query parameters, the content-type header and the raw
\* body of a blob request; the query parameters and the JSON body of a table
\* request (jsonOk = FALSE: request.json() rejects the body).
Req(ep, m, bn, ct, body, uid, dep, ok, js) ==
  [endpoint |-> ep, method |-> m, blobName |-> bn, contentType |-> ct, body |-> body,
   userId |-> uid, department |-> dep, jsonOk |-> ok, json |-> js]

NoJson == [userId |-> None, department |-> None, name |-> None, email |-> None, age |-> None]

BlobReq(m, bn, ct, body) == Req("blob", m, bn, ct, body, None, None, FALSE, NoJson)

TableQuery(m, uid, dep) == Req("table", m, None, None, <<>>, uid, dep, FALSE, NoJson)

TableBody(m, js) == Req("table", m, None, None, <<>>, None, None, TRUE, js)

Json(uid, dep, name, email, age) ==
  [userId |-> uid, department |-> dep, name |-> name, email |-> email, age |-> age]

\* The blob requests clients send: every method in some spelling, the blobName
\* missing, empty and given, the content-type header missing, empty and given,
\* an empty body, a body of one chunk and a body of several.
BlobRequests ==
  {BlobReq(<<"G", "E", "T">>, bn, None, <<>>) : bn \in {None, Some("a"), Some("b")}}
    \cup {BlobReq(<<"D", "e", "l", "e", "t", "e">>, bn, None, <<>>) :
            bn \in {None, Some(""), Some("a")}}
    \cup {BlobReq(<<"p", "o", "s", "t">>, None, None, <<7>>)}
    \cup {BlobReq(<<"p", "o", "s", "t">>, Some("a"), ct, <<7>>) : ct \in {None, Some("")}}
    \cup {BlobReq(<<"p", "o", "s", "t">>, Some("a"), Some("text/plain"), b) :
            b \in {<<>>, <<8, 9, 8>>}}
    \cup {BlobReq(<<"P", "O", "S", "T">>, Some("b"), Some("text/plain"), <<7>>)}
    \cup {BlobReq(<<"P", "U", "T">>, Some("a"), None, <<7>>)}

\* (name, email, age) of the JSON bodies of POST and PUT.
Alice == <<Some("A"), Some("a@x.com"), Some(30)>>
Bob == <<Some("B"), Some("b@x.com"), None>>
Carol == <<None, Some("c@x.com"), Some(31)>>
Dave == <<Some("D"), None, None>>

Departments == {None, Some(""), Some("eng")}

User(uid, dep, p) == Json(uid, dep, p[1], p[2], p[3])

\* The table requests clients send: every method in some spelling, the
\* department missing, empty and given, required fields missing or empty, age
\* missing, bodies that are not JSON.
TableRequests ==
  {TableQuery(<<"g", "e", "t">>, Some("u1"), dep) : dep \in Departments}
    \cup {TableQuery(<<"g", "e", "t">>, None, dep) : dep \in {None, Some("eng")}}
    \cup {TableQuery(DELETE, Some("u1"), dep) : dep \in Departments}
    \cup {TableQuery(DELETE, None, None)}
    \cup {TableBody(<<"p", "o", "s", "t">>, User(Some("u1"), dep, Alice)) : dep \in Departments}
    \cup {TableBody(<<"p", "o", "s", "t">>, User(Some("u1"), None, Bob))}
    \cup {TableBody(POST, User(None, None, Alice))}
    \cup {TableBody(POST, User(Some("u1"), None, p)) :
            p \in {Carol, <<Some("A"), Some(""), Some(30)>>}}
    \cup {TableBody(<<"P", "u", "t">>, User(Some("u1"), Some(""), Bob))}
    \cup {TableBody(<<"P", "u", "t">>, User(Some("u1"), None, Dave))}
    \cup {TableBody(<<"P", "u", "t">>, User(Some("u1"), dep, Carol)) : dep \in {None, Some("eng")}}
    \cup {TableBody(PUT, User(None, Some("eng"), Alice))}
    \cup {[TableBody(m, NoJson) EXCEPT !.jsonOk = FALSE] : m \in {POST, PUT}}
    \cup {TableQuery(<<"p", "a", "t", "c", "h">>, Some("u1"), None)}

\* --------------------------------------------------------------- responses
Resp(status, error) ==
  [status |-> status, error |-> error, message |-> "", body |-> None,
   contentType |-> None, contentLength |-> None, entity |-> None, items |-> {}]

NoResp == Resp(0, "")

\* ------------------------------------------------------------------ state
VARIABLES
  connectionString, \* process.env.AZURE_STORAGE_CONNECTION_STRING, read at load
  containerExists,  \* the blob service holds the container "documents"
  blobs,            \* name -> [content, contentType, etag] of the blobs in it
  nextEtag,         \* the blob service's next etag
  tableExists,      \* the table service holds the table "users"
  entities,         \* the entities of the table
  pc,               \* per slot: idle, guard, dispatch, props, done
  req,              \* per slot: the request being handled
  resp,             \* per slot: the response returned
  local,            \* per slot: the handler's locals across an await
  calls,            \* per slot: the storage calls made for the request, in order
  guard,            \* per slot: how the store-creation call ended
  started,          \* requests delivered so far
  freshBlob,        \* history: the latest upload acknowledged with 201, until deleted
  freshUser,        \* history: the latest create acknowledged with 201, until rewritten
  writes            \* history: the acknowledged writes of the records now stored

vars ==
  <<connectionString, containerExists, blobs, nextEtag, tableExists, entities,
    pc, req, resp, local, calls, guard, started, freshBlob, freshUser, writes>>

\* content: the downloaded bytes; etag, propsEtag: the etags the download and the
\* getProperties responses carried (0: no such response).
NoLocal == [content |-> <<>>, etag |-> 0, propsEtag |-> 0]

\* ---------------------------------------------------------- blob service
\* A thrown RestError, by its statusCode.
Threw(code) == [ok |-> FALSE, statusCode |-> code]

\* The chunks a download stream yields for a content.
ChunkSize == 2

RECURSIVE Chunks(_)
Chunks(content) ==
  IF Len(content) <= ChunkSize THEN (IF content = <<>> THEN <<>> ELSE <<content>>)
  ELSE <<SubSeq(content, 1, ChunkSize)>>
         \o Chunks(SubSeq(content, ChunkSize + 1, Len(content)))

\* Only the first chunk of the stream is kept.
Concat_FirstChunk(chunks) == IF chunks = <<>> THEN <<>> ELSE chunks[1]

\* Buffer.concat(chunks).
RECURSIVE Concat(_)
Concat(chunks) == IF chunks = <<>> THEN <<>> ELSE Head(chunks) \o Concat(Tail(chunks))

\* blockBlobClient.download(): the stream of the blob (under Node.js the
\* response of a download always carries readableStreamBody), or 404.
Download(name) ==
  IF containerExists /\ name \in DOMAIN blobs
  THEN [ok |-> TRUE, readableStreamBody |-> Some(Chunks(blobs[name].content)),
        etag |-> blobs[name].etag]
  ELSE Threw(404)

\* blockBlobClient.getProperties().
GetProperties(name) ==
  IF containerExists /\ name \in DOMAIN blobs
  THEN [ok |-> TRUE, contentType |-> blobs[name].contentType,
        contentLength |-> Some(Len(blobs[name].content)), etag |-> blobs[name].etag]
  ELSE Threw(404)

Without(f, k) == [x \in DOMAIN f \ {k} |-> f[x]]

With(f, k, v) == [x \in DOMAIN f \cup {k} |-> IF x = k THEN v ELSE f[x]]

\* blockBlobClient.upload(body, length, {blobHTTPHeaders: {blobContentType}}):
\* creates the blob or replaces it.
Upload(bs, name, content, blobContentType, etag) ==
  With(bs, name, [content |-> content, contentType |-> Some(blobContentType), etag |-> etag])

\* blockBlobClient.delete({deleteSnapshots: 'include'}).
DeleteBlob(bs, name) == Without(bs, name)

\* containerClient.listBlobsFlat().
ListBlobsFlat ==
  {[name |-> n, size |-> Len(blobs[n].content), contentType |-> blobs[n].contentType] :
     n \in DOMAIN blobs}

\* ------------------------------------------------------------ blob handler
OctetStream == "application/octet-stream"

\* A check for undefined alone: connectionString === undefined.
Configured_UndefinedOnly == connectionString # None

\* if (!connectionString) of both handlers.
Configured == ~FalsyStr(connectionString)

NotConfigured == Resp(500, "Azure Storage connection string not configured")

\* The outer catch of the dispatcher.
InternalError == Resp(500, "Internal server error")

MethodNotAllowed == Resp(405, "Method not allowed")

\* A creation call that did not create the store ends the request with 500.
GuardResult_Surface(outcome) ==
  IF outcome = "created" THEN [pc |-> "dispatch", resp |-> NoResp]
  ELSE [pc |-> "done", resp |-> InternalError]

\* try { await create...() } catch { context.log(...) }: whatever the creation
\* call did, the handler goes on to method dispatch.
GuardResult(outcome) == [pc |-> "dispatch", resp |-> NoResp]

\* What a handler step leaves behind: where the invocation stands, its response,
\* the container's blobs, the locals kept across the await, the storage calls made.
BlobOut(p, rs, bs, loc, cs) == [pc |-> p, resp |-> rs, blobs |-> bs, local |-> loc, calls |-> cs]

\* request.headers.get('content-type') || 'application/octet-stream'
BlobContentType(q) == OrStr(q.contentType, OctetStream)

\* handleGetRequest up to its first await's result: download, or the listing.
BlobHandleGet(q) ==
  IF ~FalsyStr(q.blobName)
  THEN LET d == Download(q.blobName[1])
       IN IF d.ok
          THEN IF d.readableStreamBody = None
               THEN BlobOut("done", Resp(404, "Blob not found or empty"), blobs, NoLocal,
                            <<"download">>)
               ELSE BlobOut("props", NoResp, blobs,
                            [content |-> Concat(d.readableStreamBody[1]), etag |-> d.etag,
                             propsEtag |-> 0],
                            <<"download">>)
          ELSE IF d.statusCode = 404
               THEN BlobOut("done", Resp(404, "Blob not found"), blobs, NoLocal, <<"download">>)
               ELSE BlobOut("done", InternalError, blobs, NoLocal, <<"download">>)
  ELSE IF containerExists
       THEN BlobOut("done", [Resp(200, "") EXCEPT !.items = ListBlobsFlat], blobs, NoLocal,
                    <<"listBlobsFlat">>)
       ELSE BlobOut("done", InternalError, blobs, NoLocal, <<"listBlobsFlat">>)

\* handleGetRequest after the download: getProperties, then the 200 response.
BlobHandleGetProps(q, loc) ==
  LET p == GetProperties(q.blobName[1])
  IN IF p.ok
     THEN BlobOut("done",
                  [Resp(200, "") EXCEPT
                     !.body = Some(loc.content),
                     !.contentType = Some(OrStr(p.contentType, OctetStream)),
                     !.contentLength =
                        Some(IF p.contentLength = None THEN "0"
                             ELSE NumToString(p.contentLength[1]))],
                  blobs, [loc EXCEPT !.propsEtag = p.etag], <<"getProperties">>)
     ELSE IF p.statusCode = 404
          THEN BlobOut("done", Resp(404, "Blob not found"), blobs, NoLocal, <<"getProperties">>)
          ELSE BlobOut("done", InternalError, blobs, NoLocal, <<"getProperties">>)

\* handlePostRequest.
BlobHandlePost(q) ==
  IF FalsyStr(q.blobName)
  THEN BlobOut("done", Resp(400, "Missing required parameter: blobName"), blobs, NoLocal, <<>>)
  ELSE IF containerExists
       THEN BlobOut("done", [Resp(201, "") EXCEPT !.message = "Blob uploaded successfully"],
                    Upload(blobs, q.blobName[1], q.body, BlobContentType(q), nextEtag),
                    NoLocal, <<"upload">>)
       ELSE BlobOut("done", InternalError, blobs, NoLocal, <<"upload">>)

\* handleDeleteRequest with the delete call ahead of the presence check.
BlobHandleDelete_DeleteFirst(q) ==
  LET name == OrStr(q.blobName, "")
  IN IF containerExists /\ name \in DOMAIN blobs
     THEN BlobOut("done", [Resp(200, "") EXCEPT !.message = "Blob deleted successfully"],
                  DeleteBlob(blobs, name), NoLocal, <<"delete">>)
     ELSE IF FalsyStr(q.blobName)
          THEN BlobOut("done", Resp(400, "Missing required parameter: blobName"), blobs,
                       NoLocal, <<"delete">>)
          ELSE BlobOut("done", Resp(404, "Blob not found"), blobs, NoLocal, <<"delete">>)

\* handleDeleteRequest.
BlobHandleDelete(q) ==
  IF FalsyStr(q.blobName)
  THEN BlobOut("done", Resp(400, "Missing required parameter: blobName"), blobs, NoLocal, <<>>)
  ELSE IF containerExists /\ q.blobName[1] \in DOMAIN blobs
       THEN BlobOut("done", [Resp(200, "") EXCEPT !.message = "Blob deleted successfully"],
                    DeleteBlob(blobs, q.blobName[1]), NoLocal, <<"delete">>)
       ELSE BlobOut("done", Resp(404, "Blob not found"), blobs, NoLocal, <<"delete">>)

\* The switch with a case 'PUT' that falls into the upload.
BlobSwitch_PutUploads(q) ==
  LET method == ToUpperCase(q.method)
  IN CASE method = GET -> BlobHandleGet(q)
       [] method = POST \/ method = PUT -> BlobHandlePost(q)
       [] method = DELETE -> BlobHandleDelete(q)
       [] OTHER -> BlobOut("done", MethodNotAllowed, blobs, NoLocal, <<>>)

\* switch (method) of blobStorageApi.
BlobSwitch(q) ==
  LET method == ToUpperCase(q.method)
  IN CASE method = GET -> BlobHandleGet(q)
       [] method = POST -> BlobHandlePost(q)
       [] method = DELETE -> BlobHandleDelete(q)
       [] OTHER -> BlobOut("done", MethodNotAllowed, blobs, NoLocal, <<>>)

\* ---------------------------------------------------------------- actions
Free(r) == pc[r] \in {"idle", "done"}

\* The host runs a new invocation in a slot that is not busy, and takes the
\* slots into use in order.
LowestFree(r) == Free(r) /\ \A s \in Procs : s < r => pc[s] # "idle"

\* The host delivers a request to blobStorageApi; without a connection string
\* the handler answers at once.
BlobEntry(r, q) ==
  /\ LowestFree(r)
  /\ started < MaxRequests
  /\ q \in BlobRequests
  /\ started' = started + 1
  /\ req' = [req EXCEPT ![r] = q]
  /\ calls' = [calls EXCEPT ![r] = <<>>]
  /\ guard' = [guard EXCEPT ![r] = "none"]
  /\ local' = [local EXCEPT ![r] = NoLocal]
  /\ IF ~Configured
     THEN /\ pc' = [pc EXCEPT ![r] = "done"]
          /\ resp' = [resp EXCEPT ![r] = NotConfigured]
     ELSE /\ pc' = [pc EXCEPT ![r] = "guard"]
          /\ resp' = [resp EXCEPT ![r] = NoResp]
  /\ UNCHANGED <<connectionString, containerExists, blobs, nextEtag, tableExists, entities,
                 freshBlob, freshUser, writes>>

\* await containerClient.createIfNotExists({access: 'blob'}) and its catch.
BlobGuard(r) ==
  /\ pc[r] = "guard"
  /\ req[r].endpoint = "blob"
  /\ \E outcome \in (IF containerExists THEN {"exists"} ELSE {"created", "failed"}) :
       /\ containerExists' = (containerExists \/ outcome = "created")
       /\ guard' = [guard EXCEPT ![r] = outcome]
       /\ pc' = [pc EXCEPT ![r] = GuardResult(outcome).pc]
       /\ resp' = [resp EXCEPT ![r] = GuardResult(outcome).resp]
  /\ calls' = [calls EXCEPT ![r] = Append(@, "createIfNotExists")]
  /\ UNCHANGED <<connectionString, blobs, nextEtag, tableExists, entities, req, local,
                 started, freshBlob, freshUser, writes>>

\* The history of acknowledged uploads after a handler step.
FreshBlobAfter(q, out) ==
  IF out.resp.status = 201
  THEN Some([name |-> q.blobName[1], body |-> q.body, contentType |-> q.contentType,
             etag |-> nextEtag])
  ELSE IF freshBlob # None /\ freshBlob[1].name \notin DOMAIN out.blobs THEN None
       ELSE freshBlob

\* The method switch of blobStorageApi with the handler's first storage call.
BlobDispatch(r) ==
  /\ pc[r] = "dispatch"
  /\ req[r].endpoint = "blob"
  /\ LET out == BlobSwitch(req[r])
     IN /\ pc' = [pc EXCEPT ![r] = out.pc]
        /\ resp' = [resp EXCEPT ![r] = out.resp]
        /\ blobs' = out.blobs
        /\ nextEtag' = IF out.resp.status = 201 THEN nextEtag + 1 ELSE nextEtag
        /\ local' = [local EXCEPT ![r] = out.local]
        /\ calls' = [calls EXCEPT ![r] = @ \o out.calls]
        /\ freshBlob' = FreshBlobAfter(req[r], out)
  /\ UNCHANGED <<connectionString, containerExists, tableExists, entities, req, guard,
                 started, freshUser, writes>>

\* handleGetRequest resumes after the download: await getProperties().
BlobGetProps(r) ==
  /\ pc[r] = "props"
  /\ LET out == BlobHandleGetProps(req[r], local[r])
     IN /\ pc' = [pc EXCEPT ![r] = out.pc]
        /\ resp' = [resp EXCEPT ![r] = out.resp]
        /\ local' = [local EXCEPT ![r] = out.local]
        /\ calls' = [calls EXCEPT ![r] = @ \o out.calls]
  /\ UNCHANGED <<connectionString, containerExists, blobs, nextEtag, tableExists, entities,
                 req, guard, started, freshBlob, freshUser, writes>>

\* --------------------------------------------------------- table service
SameKey(e, pk, rk) == e.partitionKey = pk /\ e.rowKey = rk

HasEntity(es, pk, rk) == \E e \in es : SameKey(e, pk, rk)

\* tableClient.getEntity(partitionKey, rowKey).
GetEntity(pk, rk) ==
  IF tableExists /\ HasEntity(entities, pk, rk)
  THEN [ok |-> TRUE, entity |-> CHOOSE e \in entities : SameKey(e, pk, rk)]
  ELSE Threw(404)

\* A create that does not look for the key.
CreateEntity_NoConflict(es, e) == [ok |-> TRUE, entities |-> es \cup {e}]

\* tableClient.createEntity(entity): 409 when the key is taken.
CreateEntity(es, e) ==
  IF HasEntity(es, e.partitionKey, e.rowKey) THEN Threw(409)
  ELSE [ok |-> TRUE, entities |-> es \cup {e}]

\* An upsert in "Merge" mode: properties the new entity lacks keep their old value.
UpsertEntity_Merge(es, e) ==
  IF HasEntity(es, e.partitionKey, e.rowKey)
  THEN LET old == CHOOSE x \in es : SameKey(x, e.partitionKey, e.rowKey)
       IN (es \ {old})
            \cup {[e EXCEPT !.name = IF e.name = None THEN old.name ELSE e.name,
                            !.email = IF e.email = None THEN old.email ELSE e.email]}
  ELSE es \cup {e}

\* tableClient.upsertEntity(entity, "Replace"): the entity replaces the stored one.
UpsertEntity(es, e) == {x \in es : ~SameKey(x, e.partitionKey, e.rowKey)} \cup {e}

\* A delete that is acknowledged and removes nothing.
DeleteEntity_Keep(es, pk, rk) == es

\* tableClient.deleteEntity(partitionKey, rowKey).
DeleteEntity(es, pk, rk) == {x \in es : ~SameKey(x, pk, rk)}

\* tableClient.listEntities({queryOptions: {filter: odata`PartitionKey eq ${department}`}}).
ListEntities(department) == {e \in entities : e.partitionKey = department}

\* ----------------------------------------------------------- table handler
TableOut(rs, es, cs) == [resp |-> rs, entities |-> es, calls |-> cs]

\* const { userId, department = 'default', name, email, age } = body, and the
\* userEntity literal of handlePostRequest and handlePutRequest.
UserEntity(js) ==
  [partitionKey |-> DefaultTo(js.department, "default"), rowKey |-> js.userId[1],
   name |-> js.name, email |-> js.email, age |-> OrNum(js.age, 0)]

\* handleGetRequest.
TableHandleGet(q) ==
  LET department == OrStr(q.department, "default")
  IN IF ~FalsyStr(q.userId)
     THEN LET g == GetEntity(department, q.userId[1])
          IN IF g.ok
             THEN TableOut([Resp(200, "") EXCEPT !.entity = Some(g.entity)], entities,
                           <<"getEntity">>)
             ELSE IF g.statusCode = 404
                  THEN TableOut(Resp(404, "User not found"), entities, <<"getEntity">>)
                  ELSE TableOut(InternalError, entities, <<"getEntity">>)
     ELSE IF tableExists
          THEN TableOut([Resp(200, "") EXCEPT !.items = ListEntities(department)], entities,
                        <<"listEntities">>)
          ELSE TableOut(InternalError, entities, <<"listEntities">>)

\* handlePostRequest.
TableHandlePost(q) ==
  IF ~q.jsonOk THEN TableOut(InternalError, entities, <<>>)
  ELSE IF FalsyStr(q.json.userId) \/ FalsyStr(q.json.name) \/ FalsyStr(q.json.email)
       THEN TableOut(Resp(400, "Missing required fields: userId, name, email"), entities, <<>>)
       ELSE LET userEntity == UserEntity(q.json)
                c == IF tableExists THEN CreateEntity(entities, userEntity) ELSE Threw(404)
            IN IF c.ok
               THEN TableOut([Resp(201, "") EXCEPT !.message = "User created successfully",
                                                  !.entity = Some(userEntity)],
                             c.entities, <<"createEntity">>)
               ELSE TableOut(InternalError, entities, <<"createEntity">>)

\* handlePutRequest.
TableHandlePut(q) ==
  IF ~q.jsonOk THEN TableOut(InternalError, entities, <<>>)
  ELSE IF FalsyStr(q.json.userId)
       THEN TableOut(Resp(400, "Missing required field: userId"), entities, <<>>)
       ELSE LET userEntity == UserEntity(q.json)
            IN IF tableExists
               THEN TableOut([Resp(200, "") EXCEPT !.message = "User updated successfully",
                                                  !.entity = Some(userEntity)],
                             UpsertEntity(entities, userEntity), <<"upsertEntity">>)
               ELSE TableOut(InternalError, entities, <<"upsertEntity">>)

\* handleDeleteRequest.
TableHandleDelete(q) ==
  LET department == OrStr(q.department, "default")
  IN IF FalsyStr(q.userId)
     THEN TableOut(Resp(400, "Missing required parameter: userId"), entities, <<>>)
     ELSE IF tableExists /\ HasEntity(entities, department, q.userId[1])
          THEN TableOut([Resp(200, "") EXCEPT !.message = "User deleted successfully"],
                        DeleteEntity(entities, department, q.userId[1]), <<"deleteEntity">>)
          ELSE TableOut(Resp(404, "User not found"), entities, <<"deleteEntity">>)

\* switch (method) of tableStorageApi.
TableSwitch(q) ==
  LET method == ToUpperCase(q.method)
  IN CASE method = GET -> TableHandleGet(q)
       [] method = POST -> TableHandlePost(q)
       [] method = PUT -> TableHandlePut(q)
       [] method = DELETE -> TableHandleDelete(q)
       [] OTHER -> TableOut(MethodNotAllowed, entities, <<>>)

\* The host delivers a request to tableStorageApi.
TableEntry(r, q) ==
  /\ LowestFree(r)
  /\ started < MaxRequests
  /\ q \in TableRequests
  /\ started' = started + 1
  /\ req' = [req EXCEPT ![r] = q]
  /\ calls' = [calls EXCEPT ![r] = <<>>]
  /\ guard' = [guard EXCEPT ![r] = "none"]
  /\ local' = [local EXCEPT ![r] = NoLocal]
  /\ IF ~Configured
     THEN /\ pc' = [pc EXCEPT ![r] = "done"]
          /\ resp' = [resp EXCEPT ![r] = NotConfigured]
     ELSE /\ pc' = [pc EXCEPT ![r] = "guard"]
          /\ resp' = [resp EXCEPT ![r] = NoResp]
  /\ UNCHANGED <<connectionString, containerExists, blobs, nextEtag, tableExists, entities,
                 freshBlob, freshUser, writes>>

\* await tableClient.createTable() and its catch.
TableGuard(r) ==
  /\ pc[r] = "guard"
  /\ req[r].endpoint = "table"
  /\ \E outcome \in (IF tableExists THEN {"exists"} ELSE {"created", "failed"}) :
       /\ tableExists' = (tableExists \/ outcome = "created")
       /\ guard' = [guard EXCEPT ![r] = outcome]
       /\ pc' = [pc EXCEPT ![r] = GuardResult(outcome).pc]
       /\ resp' = [resp EXCEPT ![r] = GuardResult(outcome).resp]
  /\ calls' = [calls EXCEPT ![r] = Append(@, "createTable")]
  /\ UNCHANGED <<connectionString, containerExists, blobs, nextEtag, entities, req, local,
                 started, freshBlob, freshUser, writes>>

KeyOf(e) == <<e.partitionKey, e.rowKey>>

At(es, k) == {e \in es : KeyOf(e) = k}

\* The acknowledged writes of the stored records after a handler step.
WritesAfter(q, out) ==
  LET kept == {w \in writes : At(out.entities, w.key) = At(entities, w.key)}
  IN IF out.resp.status \in {200, 201} /\ out.resp.entity # None /\ out.calls # <<"getEntity">>
     THEN {w \in kept : w.key # KeyOf(out.resp.entity[1])}
            \cup {[key |-> KeyOf(out.resp.entity[1]), json |-> q.json]}
     ELSE kept

\* The latest acknowledged create after a handler step.
FreshUserAfter(q, out) ==
  IF out.resp.status = 201 THEN Some([key |-> KeyOf(out.resp.entity[1]), json |-> q.json])
  ELSE IF freshUser # None /\ At(out.entities, freshUser[1].key) # At(entities, freshUser[1].key)
       THEN None
       ELSE freshUser

\* The method switch of tableStorageApi with the handler's storage call.
TableDispatch(r) ==
  /\ pc[r] = "dispatch"
  /\ req[r].endpoint = "table"
  /\ LET out == TableSwitch(req[r])
     IN /\ pc' = [pc EXCEPT ![r] = "done"]
        /\ resp' = [resp EXCEPT ![r] = out.resp]
        /\ entities' = out.entities
        /\ calls' = [calls EXCEPT ![r] = @ \o out.calls]
        /\ freshUser' = FreshUserAfter(req[r], out)
        /\ writes' = WritesAfter(req[r], out)
  /\ UNCHANGED <<connectionString, containerExists, blobs, nextEtag, tableExists, req, local,
                 guard, started, freshBlob>>

\* What the storage account holds when the function app starts: nothing, or
\* the container and the table with one blob and one record from earlier use.
InitialBlob == [content |-> <<8, 9, 8>>, contentType |-> Some("image/png"), etag |-> 1]

InitialUser == User(Some("u1"), None, Alice)

Init ==
  /\ connectionString \in {None, Some(""), Some("UseDevelopmentStorage=true")}
  /\ \/ /\ containerExists = FALSE /\ blobs = <<>> /\ nextEtag = 1
        /\ tableExists = FALSE /\ entities = {} /\ writes = {}
     \/ /\ containerExists = TRUE /\ blobs = [n \in {"a"} |-> InitialBlob] /\ nextEtag = 2
        /\ tableExists = TRUE
        /\ entities = {UserEntity(InitialUser)}
        /\ writes = {[key |-> KeyOf(UserEntity(InitialUser)), json |-> InitialUser]}
  /\ pc = [r \in Procs |-> "idle"]
  /\ req = [r \in Procs |-> BlobReq(GET, None, None, <<>>)]
  /\ resp = [r \in Procs |-> NoResp]
  /\ local = [r \in Procs |-> NoLocal]
  /\ calls = [r \in Procs |-> <<>>]
  /\ guard = [r \in Procs |-> "none"]
  /\ started = 0
  /\ freshBlob = None
  /\ freshUser = None

Next ==
  \E r \in Procs :
    \/ \E q \in BlobRequests : BlobEntry(r, q)
    \/ BlobGuard(r)
    \/ BlobDispatch(r)
    \/ BlobGetProps(r)
    \/ \E q \in TableRequests : TableEntry(r, q)
    \/ TableGuard(r)
    \/ TableDispatch(r)

Spec == Init /\ [][Next]_vars

\* ================================================================ properties
\* The method a request names, compared without regard to case, spelled out
\* for the spellings the requests use.
MethodName(m) ==
  CASE m \in {<<"G", "E", "T">>, <<"g", "e", "t">>} -> "GET"
    [] m \in {<<"P", "O", "S", "T">>, <<"p", "o", "s", "t">>} -> "POST"
    [] m \in {<<"P", "U", "T">>, <<"P", "u", "t">>} -> "PUT"
    [] m \in {<<"D", "E", "L", "E", "T", "E">>, <<"D", "e", "l", "e", "t", "e">>} -> "DELETE"
    [] OTHER -> "OTHER"

IsBlob(q, m) == q.endpoint = "blob" /\ MethodName(q.method) = m

IsTable(q, m) == q.endpoint = "table" /\ MethodName(q.method) = m

\* The store-creation calls of the guard step, and the other storage calls of a request.
GuardCalls == {"createIfNotExists", "createTable"}

IsCrudCall(c) == c \notin GuardCalls

CrudCalls(cs) == SelectSeq(cs, IsCrudCall)

StoreUnchanged == UNCHANGED <<containerExists, blobs, nextEtag, tableExists, entities>>

\* ---- C1
C1_Answered ==
  ~(connectionString # None /\ connectionString # Some("")) =>
     \A r \in Procs : pc[r] # "idle" =>
        /\ pc[r] = "done"
        /\ resp[r].status = 500
        /\ resp[r].error = "Azure Storage connection string not configured"
        /\ calls[r] = <<>>

C1_StoreUntouched ==
  ~(connectionString # None /\ connectionString # Some("")) => StoreUnchanged

\* C1: without a connection string (undefined or empty) every request on both
\* endpoints is answered 500 "not configured", makes no storage call at all, and
\* no step changes the container, the blobs, the table or the entities.
C1_NotConfigured == []C1_Answered /\ [][C1_StoreUntouched]_vars

\* Witness of C1: the credential is absent and a blob upload and a record create have both been answered.
C1_Witness ==
  /\ connectionString = Some("")
  /\ \E r, s \in Procs :
       /\ pc[r] = "done" /\ IsBlob(req[r], "POST") /\ req[r].blobName = Some("a")
       /\ pc[s] = "done" /\ IsTable(req[s], "POST") /\ req[s].json.userId = Some("u1")
       /\ resp[r].status = 500 /\ resp[s].status = 500

\* ---- C2
\* The request leaves out a parameter or field its method requires.
OmitsRequired(q) ==
  \/ (IsBlob(q, "POST") \/ IsBlob(q, "DELETE")) /\ q.blobName = None
  \/ IsTable(q, "POST") /\ q.jsonOk
       /\ (q.json.userId = None \/ q.json.name = None \/ q.json.email = None)
  \/ IsTable(q, "PUT") /\ q.jsonOk /\ q.json.userId = None
  \/ IsTable(q, "DELETE") /\ q.userId = None

HasCredential == connectionString # None /\ connectionString # Some("")

\* C2 as stated: such a request is answered 400 and makes no call to the
\* storage service at any point.
C2_Original ==
  HasCredential =>
    \A r \in Procs : (pc[r] # "idle" /\ OmitsRequired(req[r])) =>
       /\ calls[r] = <<>>
       /\ pc[r] = "done" => resp[r].status = 400

\* C2, amended: such a request (for table POST and PUT: one whose body parses
\* as a JSON object) is answered 400 and makes no blob or record call; the only
\* storage call it makes is the store-creation call of the guard step, which
\* runs before the validation.
C2_NoCrudCall ==
  HasCredential =>
    \A r \in Procs : (pc[r] # "idle" /\ OmitsRequired(req[r])) =>
       /\ CrudCalls(calls[r]) = <<>>
       /\ pc[r] = "done" =>
            /\ resp[r].status = 400
            /\ calls[r] \in {<<"createIfNotExists">>, <<"createTable">>}

\* Witness of C2: a blob DELETE without blobName and a table PUT without userId, both answered 400.
C2_Witness ==
  /\ HasCredential
  /\ \E r, s \in Procs :
       /\ pc[r] = "done" /\ IsBlob(req[r], "DELETE") /\ req[r].blobName = None
       /\ pc[s] = "done" /\ IsTable(req[s], "PUT") /\ req[s].json.userId = None
       /\ resp[r].status = 400 /\ resp[s].status = 400

\* ---- C9
Allowed(ep) == IF ep = "blob" THEN {"GET", "POST", "DELETE"} ELSE {"GET", "POST", "PUT", "DELETE"}

Unsupported(q) == MethodName(q.method) \notin Allowed(q.endpoint)

\* C9: with the credential, a request whose method is not one the endpoint
\* supports is answered 405 and makes no blob or record call.
C9_MethodNotAllowed ==
  HasCredential =>
    \A r \in Procs : (pc[r] # "idle" /\ Unsupported(req[r])) =>
       /\ CrudCalls(calls[r]) = <<>>
       /\ pc[r] = "done" => (resp[r].status = 405 /\ resp[r].error = "Method not allowed")

\* Witness of C9: a blob PUT and a table patch (lower case) have both been answered 405.
C9_Witness ==
  \E r, s \in Procs :
    /\ pc[r] = "done" /\ req[r].endpoint = "blob" /\ req[r].method = <<"P", "U", "T">>
    /\ pc[s] = "done" /\ req[s].endpoint = "table"
    /\ req[s].method = <<"p", "a", "t", "c", "h">>
    /\ resp[r].status = 405 /\ resp[s].status = 405

\* ---- C8
\* The guard step of slot r neither answers the request nor sets its response:
\* whatever the creation call did, the request stands at method dispatch next.
C8_GuardStep ==
  \A r \in Procs : (pc[r] = "guard" /\ pc'[r] # "guard") =>
     /\ pc'[r] = "dispatch"
     /\ resp'[r] = resp[r]
     /\ guard'[r] \in {"created", "exists", "failed"}

StoreExists(ep) == IF ep = "blob" THEN containerExists ELSE tableExists

\* A request whose creation call succeeded or lost the race ("already exists")
\* finds the store in place when it dispatches.
C8_RaceBenign ==
  \A r \in Procs : (pc[r] \in {"dispatch", "props"} /\ guard[r] \in {"created", "exists"}) =>
     StoreExists(req[r].endpoint)

\* C8: a failure of the store-creation call is never surfaced: the request
\* always proceeds to method dispatch; and requests racing on the creation both
\* dispatch against an existing store.
C8_GuardSwallowed == [][C8_GuardStep]_vars /\ []C8_RaceBenign

\* Witness of C8: two first requests on the table raced on createTable, one
\* created it and the other found it existing, and both stand at dispatch.
C8_Witness ==
  /\ pc[1] = "dispatch" /\ pc[2] = "dispatch"
  /\ req[1].endpoint = "table" /\ req[2].endpoint = "table"
  /\ {guard[1], guard[2]} = {"created", "exists"}

\* ---- C3
\* Slot r downloads blob n in this step.
BlobGetStep(r, n) ==
  /\ pc[r] = "dispatch" /\ pc'[r] # "dispatch"
  /\ IsBlob(req[r], "GET")
  /\ req[r].blobName = Some(n)

\* Slot r, having downloaded the content of the latest acknowledged upload,
\* completes its GET in this step.
BlobGetCompletes(r) ==
  /\ pc[r] = "props" /\ pc'[r] = "done"
  /\ freshBlob # None
  /\ req[r].blobName = Some(freshBlob[1].name)
  /\ local[r].etag = freshBlob[1].etag

\* A GET of the name of the latest acknowledged upload finds the blob.
C3_Found ==
  \A r \in Procs :
    (freshBlob # None /\ freshBlob[1].name # "" /\ BlobGetStep(r, freshBlob[1].name)) =>
       pc'[r] = "props"

\* C3 as stated: the GET returns 200 with exactly the uploaded bytes and the
\* uploaded content-type, application/octet-stream when the upload carried no
\* content-type header.
C3_OriginalStep ==
  \A r \in Procs : BlobGetCompletes(r) =>
     /\ resp'[r].status = 200
     /\ resp'[r].body = Some(freshBlob[1].body)
     /\ resp'[r].contentType =
          Some(IF freshBlob[1].contentType = None THEN "application/octet-stream"
               ELSE freshBlob[1].contentType[1])

\* C3 as stated, over every step of every behaviour.
C3_Original == [][C3_Found /\ C3_OriginalStep]_vars

\* The same with an empty content-type header counted as no header.
C3_AmendedStep ==
  \A r \in Procs : BlobGetCompletes(r) =>
     /\ resp'[r].status = 200
     /\ resp'[r].body = Some(freshBlob[1].body)
     /\ resp'[r].contentType =
          Some(IF freshBlob[1].contentType \in {None, Some("")} THEN "application/octet-stream"
               ELSE freshBlob[1].contentType[1])

\* C3, amended: a blob POST answered 201, followed by a GET of the same name
\* with no other write of that name in between, returns 200 with exactly the
\* uploaded bytes (of the latest upload of the name) and the uploaded
\* content-type, application/octet-stream when the upload carried no
\* content-type header or an empty one.
C3_RoundTrip == [][C3_Found /\ C3_AmendedStep]_vars

\* Witness of C3: the blob the account already held was replaced by an upload
\* of several chunks with a content-type, and a GET returned that upload.
C3_Witness ==
  \E r \in Procs :
    /\ pc[r] = "done" /\ IsBlob(req[r], "GET") /\ resp[r].status = 200
    /\ freshBlob # None /\ freshBlob[1].etag = 2 /\ local[r].etag = 2
    /\ req[r].blobName = Some(freshBlob[1].name)
    /\ freshBlob[1].body = <<8, 9, 8>> /\ freshBlob[1].contentType = Some("text/plain")
    /\ resp[r].body = Some(<<8, 9, 8>>) /\ resp[r].contentType = Some("text/plain")

\* ---- C10
\* C10 as stated: the bytes and the headers of a 200 response to a blob GET
\* come from one and the same stored version of the blob.
C10_OneVersion ==
  \A r \in Procs :
    (pc[r] = "done" /\ IsBlob(req[r], "GET") /\ req[r].blobName \notin {None, Some("")}
       /\ resp[r].status = 200) =>
      /\ local[r].etag = local[r].propsEtag
      /\ resp[r].contentLength = Some(NumToString(Len(resp[r].body[1])))

\* ---- C5
\* The key a table DELETE or GET addresses: the department given in the query
\* (none or an empty one: "default") and the userId.
AddressedKey(q) ==
  <<IF q.department \in {None, Some("")} THEN "default" ELSE q.department[1], q.userId[1]>>

Named(q) == q.blobName \notin {None, Some("")}

Keyed(q) == q.userId \notin {None, Some("")}

BlobPresent(n) == containerExists /\ n \in DOMAIN blobs

RecordPresent(k) == tableExists /\ \E e \in entities : <<e.partitionKey, e.rowKey>> = k

\* A DELETE of an absent key: 404, store unchanged; of a present key: 200, key gone.
C5_Delete ==
  \A r \in Procs : (pc[r] = "dispatch" /\ pc'[r] # "dispatch") =>
     /\ (IsBlob(req[r], "DELETE") /\ Named(req[r])) =>
          IF BlobPresent(req[r].blobName[1])
          THEN resp'[r].status = 200 /\ req[r].blobName[1] \notin DOMAIN blobs'
          ELSE resp'[r].status = 404 /\ StoreUnchanged
     /\ (IsTable(req[r], "DELETE") /\ Keyed(req[r])) =>
          IF RecordPresent(AddressedKey(req[r]))
          THEN /\ resp'[r].status = 200
               /\ ~\E e \in entities' : <<e.partitionKey, e.rowKey>> = AddressedKey(req[r])
          ELSE resp'[r].status = 404 /\ StoreUnchanged

\* A GET of an absent key: 404.
C5_GetAbsent ==
  \A r \in Procs : (pc[r] = "dispatch" /\ pc'[r] # "dispatch") =>
     /\ (IsBlob(req[r], "GET") /\ Named(req[r]) /\ ~BlobPresent(req[r].blobName[1])) =>
          (pc'[r] = "done" /\ resp'[r].status = 404)
     /\ (IsTable(req[r], "GET") /\ Keyed(req[r]) /\ ~RecordPresent(AddressedKey(req[r]))) =>
          (pc'[r] = "done" /\ resp'[r].status = 404)

\* An absent key stays absent until a request creates it: an upload answered
\* 201, a create answered 201 or an upsert answered 200.
C5_AbsentUntilCreated ==
  /\ \A n \in DOMAIN blobs' \ DOMAIN blobs :
       \E r \in Procs : /\ pc[r] = "dispatch" /\ pc'[r] = "done"
                        /\ IsBlob(req[r], "POST") /\ req[r].blobName = Some(n)
                        /\ resp'[r].status = 201
  /\ \A e \in entities' :
       (~\E x \in entities : <<x.partitionKey, x.rowKey>> = <<e.partitionKey, e.rowKey>>) =>
          \E r \in Procs : /\ pc[r] = "dispatch" /\ pc'[r] = "done"
                           /\ \/ IsTable(req[r], "POST") /\ resp'[r].status = 201
                              \/ IsTable(req[r], "PUT") /\ resp'[r].status = 200
                           /\ resp'[r].entity = Some(e)

Submitted(js) ==
  [partitionKey |-> IF js.department = None THEN "default" ELSE js.department[1],
   rowKey |-> js.userId[1], name |-> js.name, email |-> js.email,
   age |-> IF js.age = None THEN 0 ELSE js.age[1]]

\* Slot r answers, in this step, a GET addressed with the department and the
\* userId of the latest acknowledged create.
GetOfFreshUser(r) ==
  /\ pc[r] = "dispatch" /\ pc'[r] = "done"
  /\ IsTable(req[r], "GET")
  /\ freshUser # None
  /\ req[r].userId = freshUser[1].json.userId
  /\ req[r].department = freshUser[1].json.department

C4_Step ==
  \A r \in Procs : GetOfFreshUser(r) =>
     /\ resp'[r].status = 200
     /\ resp'[r].entity = Some(Submitted(freshUser[1].json))

\* C4 as stated: a table POST answered 201, followed by a GET addressed with
\* the same department and userId, returns 200 with the record submitted, with
\* department omitted meaning "default" and age omitted meaning 0.
C4_CreateThenFetch == [][C4_Step]_vars

\* The same for the departments that are omitted or not empty.
C4_NonEmptyStep ==
  \A r \in Procs : (GetOfFreshUser(r) /\ req[r].department # Some("")) =>
     /\ resp'[r].status = 200
     /\ resp'[r].entity = Some(Submitted(freshUser[1].json))

\* What C4 holds of: every department but the empty one.
C4_NonEmptyDepartment == [][C4_NonEmptyStep]_vars

\* ---- C6
\* The record carries the name, the email and the age (0 when omitted) of one write.
FromOneWrite(e, w) ==
  /\ w.key = <<e.partitionKey, e.rowKey>>
  /\ e.name = w.json.name
  /\ e.email = w.json.email
  /\ e.age = IF w.json.age = None THEN 0 ELSE w.json.age[1]

C6_Step ==
  \A r \in Procs :
    (pc[r] = "dispatch" /\ pc'[r] = "done" /\ IsTable(req[r], "GET") /\ Keyed(req[r])
       /\ resp'[r].status = 200) =>
      \E w \in writes : FromOneWrite(resp'[r].entity[1], w)

\* C6: every table GET of a key returns a record whose name, email and age all
\* come from one single acknowledged write (the create or one PUT), never a
\* mixture of two, also when the PUT omits fields.
C6_NoMixture == [][C6_Step]_vars

\* Witness of C6: a PUT that omits the name replaced the stored record, and a
\* GET returned the record without a name.
C6_Witness ==
  \E r, s \in Procs :
    /\ pc[r] = "done" /\ IsTable(req[r], "PUT") /\ resp[r].status = 200
    /\ req[r].json.name = None /\ req[r].json.department = None
    /\ pc[s] = "done" /\ IsTable(req[s], "GET") /\ resp[s].status = 200
    /\ req[s].userId = Some("u1") /\ req[s].department = None
    /\ resp[s].entity # None
    /\ resp[s].entity[1].name = None /\ resp[s].entity[1].email = Some("c@x.com")
    /\ resp[s].entity[1].age = 31

\* ---- C7
\* A create with all required fields, stated on the request.
ValidCreate(q) ==
  /\ IsTable(q, "POST") /\ q.jsonOk
  /\ q.json.userId \notin {None, Some("")}
  /\ q.json.name \notin {None, Some("")}
  /\ q.json.email \notin {None, Some("")}

C7_Step ==
  \A r \in Procs :
    (pc[r] = "dispatch" /\ pc'[r] # "dispatch" /\ ValidCreate(req[r])
       /\ RecordPresent(<<Submitted(req[r].json).partitionKey, req[r].json.userId[1]>>)) =>
      /\ resp'[r].status = 500
      /\ resp'[r].error = "Internal server error"
      /\ entities' = entities

C7_UniqueKey ==
  \A e1, e2 \in entities :
    (e1.partitionKey = e2.partitionKey /\ e1.rowKey = e2.rowKey) => e1 = e2

\* C7: a table POST with all required fields whose key already exists is
\* answered 500 through the generic error path and leaves the stored record
\* unchanged; at most one record exists per (partitionKey, rowKey).
C7_DuplicateCreate == [][C7_Step]_vars /\ []C7_UniqueKey

\* Witness of C7: a create of the key of the stored record, with other field
\* values, was answered 500 and the stored record is still the first one.
C7_Witness ==
  \E r \in Procs :
    /\ pc[r] = "done" /\ ValidCreate(req[r]) /\ req[r].json.name = Some("B")
    /\ req[r].json.department = None
    /\ resp[r].status = 500 /\ calls[r] = <<"createTable", "createEntity">>
    /\ \E e \in entities : e.partitionKey = "default" /\ e.rowKey = "u1" /\ e.name = Some("A")

====
